---- MODULE Spec2Model ----
(***************************************************************************)
(* Path identity utilities (src/system/path.ts), the per-repository        *)
(* sub-provider proxy and the cache keys (src/git/gitProvider.ts) of       *)
(* GitLens, with the caches those keys name.                               *)
(*                                                                         *)
(* A string is a sequence of one-character strings; indexes returned by    *)
(* the operators are 0-based, as in the source.  `undefined` arguments are *)
(* the string "undefined"; an optional boolean is "true", "false" or       *)
(* "undefined".                                                            *)
(***************************************************************************)
EXTENDS Integers, Sequences, FiniteSets, TLC

VARIABLES
    platform,    \* the host the extension runs on (@env/platform)
    call,        \* the utility applied last ("none" before any call)
    arg1,        \* the path of the call: path, s1, or `to` of relative
    arg2,        \* what it is compared with: base, s2, repoPath, or `from`
    argDelimiter,   \* delimiter argument of commonBaseIndex
    argIgnoreCase,  \* ignoreCase argument: "true", "false" or "undefined"
    ret,         \* value returned by the call
    target,      \* the sub-provider object: member name -> member value
    rp,          \* the repository path the view was created with
    calls,       \* the calls the sub-provider's methods have received, in order
    lastOp,      \* the last operation on the sub-provider or its view
    cache,       \* repository path -> cache key -> the entry of that cache
    epoch,       \* repository path -> number of change events fired for it
    fetches,     \* the populations of cache entries that are in flight
    started,     \* number of populations started so far
    lastCache,   \* the last operation on the caches
    node,        \* the class of the view node: CommitFileNode or CommitNode
    _options,    \* the options the node was constructed with
    _details,    \* the node's cached details, or undefined
    loads,       \* the loadDetails calls suspended on a query
    loadCalls,   \* number of loadDetails calls that went past the first test
    resets,      \* number of refresh(true) calls so far
    lastNode     \* the last step of a method of the node

pathVars == <<platform, call, arg1, arg2, argDelimiter, argIgnoreCase, ret>>

proxyVars == <<target, rp, calls, lastOp>>

cacheVars == <<cache, epoch, fetches, started, lastCache>>

nodeVars == <<node, _options, _details, loads, loadCalls, resets, lastNode>>

vars == <<platform, call, arg1, arg2, argDelimiter, argIgnoreCase, ret,
          target, rp, calls, lastOp,
          cache, epoch, fetches, started, lastCache,
          node, _options, _details, loads, loadCalls, resets, lastNode>>

-----------------------------------------------------------------------------
(* Bounds of the model *)

MaxNormLen == 5

MaxCbiLen == 4

MaxPathLen == 5

MaxBaseLen == 3

MaxToLen == 4

MaxFromLen == 2

MaxCalls == 2
\* longest path given to addVslsPrefixIfNeeded and hasVslsPrefix
MaxVslsLen == 4
\* longest path component of a Uri given to isDescendent
MaxUriPathLen == 3
\* most populations of cache entries started in one run
MaxFetches == 2
\* most change events fired for one repository
MaxChanges == 1
\* longest string given to the utilities together, the empty string with them
MaxDegLen == 2
\* longest `from` and `to` of relative when both range over the same strings
MaxRelLen == 3
\* most loadDetails calls of one node that go on to query
MaxLoads == 2
\* most refresh(true) calls of one node
MaxResets == 1

-----------------------------------------------------------------------------
(* Platform flags and characters *)

Platforms == {"linux", "win32", "darwin"}

isLinux == platform = "linux"

isWindows == platform = "win32"

slash == "/"

backslash == "\\"

UpperCase == {"A", "B", "C"}

\* \d of the regular expressions
Digits == {"0", "1", "2", "3", "4", "5", "6", "7", "8", "9"}

LowerChar(c) ==
    CASE c = "A" -> "a"
      [] c = "B" -> "b"
      [] c = "C" -> "c"
      [] OTHER -> c

toLowerCase(s) == [i \in 1..Len(s) |-> LowerChar(s[i])]

\* Strings over the alphabet `chars` of length at most n.
StringsUpTo(chars, n) == UNION {[1..k -> chars] : k \in 0..n}

\* s.substring(from): the characters from 0-based index `from` on.
substringFrom(s, from) ==
    IF from >= Len(s) THEN <<>> ELSE SubSeq(s, from + 1, Len(s))

\* s.substring(0, to): the first `to` characters.
substringTo(s, to) ==
    IF to >= Len(s) THEN s ELSE SubSeq(s, 1, to)

\* s.startsWith(prefix)
startsWith(s, prefix) ==
    /\ Len(prefix) <= Len(s)
    /\ \A i \in 1..Len(prefix) : s[i] = prefix[i]

\* s.charCodeAt(0) === slash
startsWithSlash(s) == Len(s) > 0 /\ s[1] = slash

\* s.charCodeAt(s.length - 1) === slash
endsWithSlash(s) == Len(s) > 0 /\ s[Len(s)] = slash

-----------------------------------------------------------------------------
(* The sub-provider object and its view *)

\* member values of the sub-provider object
Undefined == [kind |-> "undefined"]

Value(v) == [kind |-> "value", v |-> v]

Function(impl) == [kind |-> "function", impl |-> impl]

\* the members read on the sub-provider: a method every backend implements, an
\* optional method, and a field of the implementing object
Props == {"getBranch", "createBranch", "container"}

FieldValues == {"c1", "c2"}

RepoPaths == {"/repo1", "/repo2"}

\* the argument lists of a call, after the repository path
ArgLists == {<<>>, <<"x", "y">>}

\* the view of no sub-provider: the state of the proxy while the path utilities
\* are exercised
NoProxy ==
    /\ target = [p \in Props |-> Undefined]
    /\ rp = ""
    /\ calls = <<>>
    /\ lastOp = [op |-> "none"]

\* GitCaches: the names of the caches
GitCaches ==
    {"branches", "contributors", "providers", "remotes",
     "stashes", "status", "tags", "worktrees"}

\* a cache entry: nothing, a population under way, or the value of a population
\* that began after `fetched` change events of the repository
Unset == [st |-> "unset"]

Pending == [st |-> "pending"]

Cached(fetched) == [st |-> "cached", fetched |-> fetched]

\* no repository has anything cached and no event has fired
NoCache ==
    /\ cache = [r \in RepoPaths |-> [k \in GitCaches |-> Unset]]
    /\ epoch = [r \in RepoPaths |-> 0]
    /\ fetches = {}
    /\ started = 0
    /\ lastCache = [op |-> "none"]

\* no view node
NoNode ==
    /\ node = "none"
    /\ _options = [displayAsCommit |-> FALSE]
    /\ _details = Undefined
    /\ loads = {}
    /\ loadCalls = 0
    /\ resets = 0
    /\ lastNode = [op |-> "none"]

-----------------------------------------------------------------------------
(* normalizePath *)

\* path.replace(/\\/g, '/')
pathNormalizeRegex(path) ==
    [i \in 1..Len(path) |-> IF path[i] = backslash THEN slash ELSE path[i]]

\* 0-based index matched by /(?<=^\/?)([A-Z])(?=:\/)/, or -1.
driveLetterNormalizeRegex(path) ==
    LET at(i) == /\ Len(path) >= i + 3
                 /\ path[i + 1] \in UpperCase
                 /\ path[i + 2] = ":"
                 /\ path[i + 3] = slash
    IN  IF at(0) THEN 0
        ELSE IF startsWithSlash(path) /\ at(1) THEN 1
        ELSE -1

\* normalizePath with the trailing separator tested before the backslashes are
\* converted, so that a trailing backslash survives as a trailing '/'.
normalizePathStripFirst(path) ==
    IF path = <<>> THEN path
    ELSE LET p1 == IF endsWithSlash(path) THEN SubSeq(path, 1, Len(path) - 1) ELSE path
             p2 == pathNormalizeRegex(p1)
             d  == driveLetterNormalizeRegex(p2)
         IN  IF isWindows /\ d >= 0
             THEN [p2 EXCEPT ![d + 1] = LowerChar(p2[d + 1])]
             ELSE p2

normalizePath(path) ==
    IF path = <<>> THEN path
    ELSE LET p1 == pathNormalizeRegex(path)
             p2 == IF endsWithSlash(p1) THEN SubSeq(p1, 1, Len(p1) - 1) ELSE p1
             d  == driveLetterNormalizeRegex(p2)
         IN  IF isWindows /\ d >= 0
             THEN [p2 EXCEPT ![d + 1] = LowerChar(p2[d + 1])]
             ELSE p2

-----------------------------------------------------------------------------
(* Normalization: one path, normalized and normalized again *)

NormChars == {slash, backslash, "C", ":", "a"}

NormInputs == StringsUpTo(NormChars, MaxNormLen)

InitNormalize ==
    /\ platform \in Platforms
    /\ arg1 \in NormInputs
    /\ arg2 = <<>>
    /\ argDelimiter = slash
    /\ argIgnoreCase = "undefined"
    /\ call = "none"
    /\ ret = <<>>
    /\ NoProxy
    /\ NoCache
    /\ NoNode

\* ret = normalizePath(path)
NormalizePath ==
    /\ call = "none"
    /\ call' = "normalizePath"
    /\ ret' = normalizePath(arg1)
    /\ UNCHANGED <<platform, arg1, arg2, argDelimiter, argIgnoreCase>>
    /\ UNCHANGED proxyVars
    /\ UNCHANGED cacheVars
    /\ UNCHANGED nodeVars

\* the caller normalizes the normalized path once more: arg2 keeps the first result
NormalizePathAgain ==
    /\ call = "normalizePath"
    /\ call' = "normalizePath2"
    /\ arg2' = ret
    /\ ret' = normalizePath(ret)
    /\ UNCHANGED <<platform, arg1, argDelimiter, argIgnoreCase>>
    /\ UNCHANGED proxyVars
    /\ UNCHANGED cacheVars
    /\ UNCHANGED nodeVars

NextNormalize == NormalizePath \/ NormalizePathAgain

SpecNormalize == InitNormalize /\ [][NextNormalize]_vars

-----------------------------------------------------------------------------
(* commonBaseIndex *)

OptionalBooleans == {"true", "false", "undefined"}

\* The for loop of commonBaseIndex from position i on, `index` being the last
\* delimiter seen so far.
RECURSIVE commonBaseIndexLoop(_, _, _, _, _)
commonBaseIndexLoop(s1, s2, delimiter, i, index) ==
    IF i >= Len(s1) THEN index
    ELSE IF i >= Len(s2) \/ s1[i + 1] # s2[i + 1] THEN index
    ELSE commonBaseIndexLoop(s1, s2, delimiter, i + 1,
                             IF s1[i + 1] = delimiter THEN i ELSE index)

\* the loop without its break: a mismatch is skipped instead of ending the scan
RECURSIVE commonBaseIndexLoopNoBreak(_, _, _, _, _)
commonBaseIndexLoopNoBreak(s1, s2, delimiter, i, index) ==
    IF i >= Len(s1) THEN index
    ELSE IF i >= Len(s2) \/ s1[i + 1] # s2[i + 1]
         THEN commonBaseIndexLoopNoBreak(s1, s2, delimiter, i + 1, index)
    ELSE commonBaseIndexLoopNoBreak(s1, s2, delimiter, i + 1,
                                    IF s1[i + 1] = delimiter THEN i ELSE index)

\* commonBaseIndex scanning on after a mismatch
commonBaseIndexNoBreak(s1, s2, delimiter, ignoreCase) ==
    IF Len(s1) = 0 \/ Len(s2) = 0 THEN 0
    ELSE LET fold == IF ignoreCase = "undefined" THEN ~isLinux ELSE ignoreCase = "true"
             t1 == IF fold THEN toLowerCase(s1) ELSE s1
             t2 == IF fold THEN toLowerCase(s2) ELSE s2
         IN  commonBaseIndexLoopNoBreak(t1, t2, delimiter, 0, 0)

\* commonBaseIndex with `ignoreCase || !isLinux` for `ignoreCase ?? !isLinux`
commonBaseIndexOrDefault(s1, s2, delimiter, ignoreCase) ==
    IF Len(s1) = 0 \/ Len(s2) = 0 THEN 0
    ELSE LET fold == ignoreCase = "true" \/ ~isLinux
             t1 == IF fold THEN toLowerCase(s1) ELSE s1
             t2 == IF fold THEN toLowerCase(s2) ELSE s2
         IN  commonBaseIndexLoop(t1, t2, delimiter, 0, 0)

commonBaseIndex(s1, s2, delimiter, ignoreCase) ==
    IF Len(s1) = 0 \/ Len(s2) = 0 THEN 0
    ELSE LET fold == IF ignoreCase = "undefined" THEN ~isLinux ELSE ignoreCase = "true"
             t1 == IF fold THEN toLowerCase(s1) ELSE s1
             t2 == IF fold THEN toLowerCase(s2) ELSE s2
         IN  commonBaseIndexLoop(t1, t2, delimiter, 0, 0)

-----------------------------------------------------------------------------
(* Common base: two strings, a delimiter and the ignoreCase option *)

CbiChars == {slash, "a", "A"}

CbiInputs == StringsUpTo(CbiChars, MaxCbiLen)

Delimiters == {slash}

\* commonBaseIndex reads isLinux alone: Linux and one platform that is not
CbiPlatforms == {"linux", "darwin"}

InitCbi ==
    /\ platform \in CbiPlatforms
    /\ arg1 \in CbiInputs
    /\ arg2 \in CbiInputs
    /\ argDelimiter \in Delimiters
    /\ argIgnoreCase \in OptionalBooleans
    /\ call = "none"
    /\ ret = 0
    /\ NoProxy
    /\ NoCache
    /\ NoNode

\* ret = commonBaseIndex(s1, s2, delimiter, ignoreCase)
CommonBaseIndex ==
    /\ call = "none"
    /\ call' = "commonBaseIndex"
    /\ ret' = commonBaseIndex(arg1, arg2, argDelimiter, argIgnoreCase)
    /\ UNCHANGED <<platform, arg1, arg2, argDelimiter, argIgnoreCase>>
    /\ UNCHANGED proxyVars
    /\ UNCHANGED cacheVars
    /\ UNCHANGED nodeVars

NextCbi == CommonBaseIndex

SpecCbi == InitCbi /\ [][NextCbi]_vars

-----------------------------------------------------------------------------
(* commonBase *)

\* commonBase cutting s1 before the delimiter: s1.substring(0, index)
commonBaseNoDelimiter(s1, s2, delimiter, ignoreCase) ==
    LET index == commonBaseIndex(s1, s2, delimiter, ignoreCase)
    IN  IF index > 0 THEN Value(substringTo(s1, index)) ELSE Undefined

\* commonBase testing index >= 0: a prefix is returned whatever the index
commonBaseFromZero(s1, s2, delimiter, ignoreCase) ==
    LET index == commonBaseIndex(s1, s2, delimiter, ignoreCase)
    IN  IF index >= 0 THEN Value(substringTo(s1, index + 1)) ELSE Undefined

\* commonBase(s1, s2, delimiter, ignoreCase): the string s1.substring(0, index + 1)
\* when the index is positive, undefined otherwise
commonBase(s1, s2, delimiter, ignoreCase) ==
    LET index == commonBaseIndex(s1, s2, delimiter, ignoreCase)
    IN  IF index > 0 THEN Value(substringTo(s1, index + 1)) ELSE Undefined

\* ret = commonBase(s1, s2, delimiter, ignoreCase)
CommonBase ==
    /\ call = "none"
    /\ call' = "commonBase"
    /\ ret' = commonBase(arg1, arg2, argDelimiter, argIgnoreCase)
    /\ UNCHANGED <<platform, arg1, arg2, argDelimiter, argIgnoreCase>>
    /\ UNCHANGED proxyVars
    /\ UNCHANGED cacheVars
    /\ UNCHANGED nodeVars

NextCommonBase == CommonBase

SpecCommonBase == InitCbi /\ [][NextCommonBase]_vars

-----------------------------------------------------------------------------
(* isDescendent and isChild, string arguments *)

\* the string with a leading '/' when it has none
withLeadingSlash(s) == IF startsWithSlash(s) THEN s ELSE <<slash>> \o s

\* s.split('/').length
splitLength(s) == 1 + Cardinality({i \in 1..Len(s) : s[i] = slash})

\* isDescendent comparing against base without the separator after it
isDescendentNoSeparator(pathOrUri, base) ==
    LET b == withLeadingSlash(normalizePath(base))
        p == withLeadingSlash(normalizePath(pathOrUri))
    IN  Len(b) = 1 \/ startsWith(p, b)

isDescendent(pathOrUri, base) ==
    LET b == withLeadingSlash(normalizePath(base))
        p == withLeadingSlash(normalizePath(pathOrUri))
    IN  \/ Len(b) = 1
        \/ startsWith(p, IF endsWithSlash(b) THEN b ELSE b \o <<slash>>)

isChild(pathOrUri, base) ==
    LET b == withLeadingSlash(base)
    IN  /\ isDescendent(pathOrUri, b)
        /\ splitLength(substringFrom(pathOrUri,
                                     Len(b) + IF endsWithSlash(b) THEN 0 ELSE 1)) = 1

-----------------------------------------------------------------------------
(* Descendants: a path and a base *)

DescChars == {slash, backslash, "a"}

InitDesc ==
    /\ platform \in Platforms
    /\ arg1 \in StringsUpTo(DescChars, MaxPathLen)
    /\ arg2 \in StringsUpTo(DescChars, MaxBaseLen)
    /\ argDelimiter = slash
    /\ argIgnoreCase = "undefined"
    /\ call = "none"
    /\ ret = FALSE
    /\ NoProxy
    /\ NoCache
    /\ NoNode

\* ret = isDescendent(path, base)
IsDescendent ==
    /\ call = "none"
    /\ call' = "isDescendent"
    /\ ret' = isDescendent(arg1, arg2)
    /\ UNCHANGED <<platform, arg1, arg2, argDelimiter, argIgnoreCase>>
    /\ UNCHANGED proxyVars
    /\ UNCHANGED cacheVars
    /\ UNCHANGED nodeVars

\* ret = isChild(path, base)
IsChild ==
    /\ call = "none"
    /\ call' = "isChild"
    /\ ret' = isChild(arg1, arg2)
    /\ UNCHANGED <<platform, arg1, arg2, argDelimiter, argIgnoreCase>>
    /\ UNCHANGED proxyVars
    /\ UNCHANGED cacheVars
    /\ UNCHANGED nodeVars

NextDesc == IsDescendent \/ IsChild

SpecDesc == InitDesc /\ [][NextDesc]_vars

-----------------------------------------------------------------------------
(* Descendants: a path and a base that differ in letter case *)

DescCaseChars == {slash, "a", "A"}

InitDescCase ==
    /\ platform \in Platforms
    /\ arg1 \in StringsUpTo(DescCaseChars, MaxPathLen)
    /\ arg2 \in StringsUpTo(DescCaseChars, MaxBaseLen)
    /\ argDelimiter = slash
    /\ argIgnoreCase = "undefined"
    /\ call = "none"
    /\ ret = FALSE
    /\ NoProxy
    /\ NoCache
    /\ NoNode

SpecDescCase == InitDescCase /\ [][NextDesc]_vars

-----------------------------------------------------------------------------
(* isDescendent, Uri arguments *)

\* isDescendent of two Uris without the comparison of their authorities
isDescendentUriAnyAuthority(pathOrUri, base) ==
    /\ base.scheme = pathOrUri.scheme
    /\ \/ Len(base.path) = 1
       \/ startsWith(pathOrUri.path,
                     IF endsWithSlash(base.path) THEN base.path
                                                 ELSE base.path \o <<slash>>)

\* isDescendent(pathOrUri, base), both of them Uris: the last return of the
\* function, no normalization of either path
isDescendentUri(pathOrUri, base) ==
    /\ base.scheme = pathOrUri.scheme
    /\ base.authority = pathOrUri.authority
    /\ \/ Len(base.path) = 1
       \/ startsWith(pathOrUri.path,
                     IF endsWithSlash(base.path) THEN base.path
                                                 ELSE base.path \o <<slash>>)

-----------------------------------------------------------------------------
(* Descendants among Uris: arg1 is the Uri, arg2 the base Uri *)

Schemes == {"file", "vsls"}

Authorities == {"", "host"}

UriPathChars == {slash, "a"}

\* a Uri as isDescendent reads it: scheme, authority and path
Uris ==
    [scheme : Schemes, authority : Authorities,
     path : StringsUpTo(UriPathChars, MaxUriPathLen)]

InitDescUri ==
    /\ platform \in Platforms
    /\ arg1 \in Uris
    /\ arg2 \in Uris
    /\ argDelimiter = slash
    /\ argIgnoreCase = "undefined"
    /\ call = "none"
    /\ ret = FALSE
    /\ NoProxy
    /\ NoCache
    /\ NoNode

\* ret = isDescendent(uri, base)
IsDescendentUri ==
    /\ call = "none"
    /\ call' = "isDescendentUri"
    /\ ret' = isDescendentUri(arg1, arg2)
    /\ UNCHANGED <<platform, arg1, arg2, argDelimiter, argIgnoreCase>>
    /\ UNCHANGED proxyVars
    /\ UNCHANGED cacheVars
    /\ UNCHANGED nodeVars

NextDescUri == IsDescendentUri

SpecDescUri == InitDescUri /\ [][NextDescUri]_vars

-----------------------------------------------------------------------------
(* relative and splitPath, plain-string arguments *)

Letters == {"a", "b", "c", "A", "B", "C"}

\* hasSchemeRegex with `*` for `+`: a single letter and a colon is a scheme too
hasSchemeRegexStar(path) ==
    \E k \in 2..Len(path) :
        /\ path[k] = ":"
        /\ path[1] \in Letters
        /\ \A i \in 2..(k - 1) : path[i] \in Letters \union Digits \union {"+", ".", "-", "_"}

\* hasSchemeRegex.test(path), /^([a-zA-Z][\w+.-]+):/: a letter, one or more
\* word characters and a colon
hasSchemeRegex(path) ==
    \E k \in 3..Len(path) :
        /\ path[k] = ":"
        /\ path[1] \in Letters
        /\ \A i \in 2..(k - 1) : path[i] \in Letters \union Digits \union {"+", ".", "-", "_"}

\* relative comparing `to` and `from` as they are, without the '/' appended
relativeNoSlash(from, to, ignoreCase) ==
    LET f == normalizePath(from)
        t == normalizePath(to)
        index == commonBaseIndex(t, f, slash, ignoreCase)
    IN  IF index > 0 THEN substringFrom(t, index + 1) ELSE t

\* relative cutting `from` where it should cut `to`
relativeOfFrom(from, to, ignoreCase) ==
    LET f == normalizePath(from)
        t == normalizePath(to)
        index == commonBaseIndex(t \o <<slash>>, f \o <<slash>>, slash, ignoreCase)
    IN  IF index > 0 THEN substringFrom(f, index + 1) ELSE t

\* relative(from, to, ignoreCase) for arguments without a scheme
relative(from, to, ignoreCase) ==
    LET f == normalizePath(from)
        t == normalizePath(to)
        index == commonBaseIndex(t \o <<slash>>, f \o <<slash>>, slash, ignoreCase)
    IN  IF index > 0 THEN substringFrom(t, index + 1) ELSE t

\* splitPath keeping the separator at the head of the relative path
splitPathKeepSlash(path, repoPath, ignoreCase) ==
    IF repoPath # <<>>
    THEN LET p == normalizePath(path)
             r == normalizePath(repoPath)
             index == commonBaseIndex(r \o <<slash>>, p \o <<slash>>, slash, ignoreCase)
         IN  IF index > 0 THEN <<substringFrom(p, index), substringTo(p, index)>>
             ELSE IF startsWithSlash(p) THEN <<substringFrom(p, 1), r>>
             ELSE <<p, r>>
    ELSE <<normalizePath(path), normalizePath(<<>>)>>

\* splitPath returning the normalized repoPath argument in every case
splitPathRepoArgument(path, repoPath, ignoreCase) ==
    IF repoPath # <<>>
    THEN LET p == normalizePath(path)
             r == normalizePath(repoPath)
             index == commonBaseIndex(r \o <<slash>>, p \o <<slash>>, slash, ignoreCase)
         IN  IF index > 0 THEN <<substringFrom(p, index + 1), r>>
             ELSE IF startsWithSlash(p) THEN <<substringFrom(p, 1), r>>
             ELSE <<p, r>>
    ELSE <<normalizePath(path), normalizePath(<<>>)>>

\* splitPath(path, repoPath, false, ignoreCase) for arguments without a scheme;
\* the pair [path, repoPath] it returns
splitPath(path, repoPath, ignoreCase) ==
    IF repoPath # <<>>
    THEN LET p == normalizePath(path)
             r == normalizePath(repoPath)
             index == commonBaseIndex(r \o <<slash>>, p \o <<slash>>, slash, ignoreCase)
         IN  IF index > 0 THEN <<substringFrom(p, index + 1), substringTo(p, index)>>
             ELSE IF startsWithSlash(p) THEN <<substringFrom(p, 1), r>>
             ELSE <<p, r>>
    ELSE <<normalizePath(path), normalizePath(<<>>)>>

-----------------------------------------------------------------------------
(* Relative paths: arg1 is `to` (relative) or `path` (splitPath), arg2 is    *)
(* `from` (relative) or `repoPath` (splitPath)                               *)

RelChars == {slash, backslash, "a", "A"}

\* The platform and the ignoreCase argument of a call: ignoreCase omitted on a
\* case-sensitive and on a case-insensitive platform, and given against the
\* platform's default in either direction.  Without a drive letter among the
\* characters, Windows stands for every platform that is not Linux.
RelModes ==
    {<<"linux", "undefined">>, <<"win32", "undefined">>,
     <<"linux", "true">>, <<"win32", "false">>}

InitRel ==
    /\ \E mode \in RelModes : platform = mode[1] /\ argIgnoreCase = mode[2]
    /\ arg1 \in StringsUpTo(RelChars, MaxToLen)
    /\ arg2 \in StringsUpTo(RelChars, MaxFromLen)
    /\ argDelimiter = slash
    /\ call = "none"
    /\ ret = <<>>
    /\ NoProxy
    /\ NoCache
    /\ NoNode

\* ret = relative(from, to, ignoreCase)
Relative ==
    /\ call = "none"
    /\ ~hasSchemeRegex(arg1)
    /\ ~hasSchemeRegex(arg2)
    /\ call' = "relative"
    /\ ret' = relative(arg2, arg1, argIgnoreCase)
    /\ UNCHANGED <<platform, arg1, arg2, argDelimiter, argIgnoreCase>>
    /\ UNCHANGED proxyVars
    /\ UNCHANGED cacheVars
    /\ UNCHANGED nodeVars

\* ret = splitPath(path, repoPath, false, ignoreCase)
SplitPath ==
    /\ call = "none"
    /\ ~hasSchemeRegex(arg1)
    /\ ~hasSchemeRegex(arg2)
    /\ call' = "splitPath"
    /\ ret' = splitPath(arg1, arg2, argIgnoreCase)
    /\ UNCHANGED <<platform, arg1, arg2, argDelimiter, argIgnoreCase>>
    /\ UNCHANGED proxyVars
    /\ UNCHANGED cacheVars
    /\ UNCHANGED nodeVars

NextRel == Relative \/ SplitPath

SpecRel == InitRel /\ [][NextRel]_vars

-----------------------------------------------------------------------------
(* Relative paths between two paths of the same lengths: arg1 is `to`, arg2   *)
(* is `from`                                                                  *)

InitRelative ==
    /\ \E mode \in RelModes : platform = mode[1] /\ argIgnoreCase = mode[2]
    /\ arg1 \in StringsUpTo(RelChars, MaxRelLen)
    /\ arg2 \in StringsUpTo(RelChars, MaxRelLen)
    /\ argDelimiter = slash
    /\ call = "none"
    /\ ret = <<>>
    /\ NoProxy
    /\ NoCache
    /\ NoNode

NextRelative == Relative

SpecRelative == InitRelative /\ [][NextRelative]_vars

-----------------------------------------------------------------------------
(* Degenerate inputs: every utility on short strings, the empty one included *)

DegChars == {slash, backslash, "a"}

InitDegenerate ==
    /\ platform \in Platforms
    /\ arg1 \in StringsUpTo(DegChars, MaxDegLen)
    /\ arg2 \in StringsUpTo(DegChars, MaxDegLen)
    /\ argDelimiter \in Delimiters
    /\ argIgnoreCase \in OptionalBooleans
    /\ call = "none"
    /\ ret = <<>>
    /\ NoProxy
    /\ NoCache
    /\ NoNode

NextDegenerate ==
    NormalizePath \/ CommonBaseIndex \/ CommonBase \/ Relative \/ SplitPath

SpecDegenerate == InitDegenerate /\ [][NextDegenerate]_vars

-----------------------------------------------------------------------------
(* maybeUri, isAbsolute *)

\* maybeUri(path): hasSchemeRegex.test(path)
maybeUri(path) == hasSchemeRegex(path)

\* isAbsolute of Node's path module, imported as _isAbsolute: on Windows a path
\* that begins with a separator, or with a drive letter, a colon and a separator;
\* elsewhere a path that begins with a slash
_isAbsolute(path) ==
    IF isWindows
    THEN /\ Len(path) > 0
         /\ \/ path[1] \in {slash, backslash}
            \/ /\ Len(path) > 2
               /\ path[1] \in Letters
               /\ path[2] = ":"
               /\ path[3] \in {slash, backslash}
    ELSE Len(path) > 0 /\ path[1] = slash

\* isAbsolute(path)
isAbsolute(path) == ~maybeUri(path) /\ _isAbsolute(path)

-----------------------------------------------------------------------------
(* Absolute paths: one path, the inputs of the normalization *)

\* ret = isAbsolute(path)
IsAbsolute ==
    /\ call = "none"
    /\ call' = "isAbsolute"
    /\ ret' = isAbsolute(arg1)
    /\ UNCHANGED <<platform, arg1, arg2, argDelimiter, argIgnoreCase>>
    /\ UNCHANGED proxyVars
    /\ UNCHANGED cacheVars
    /\ UNCHANGED nodeVars

NextAbsolute == IsAbsolute

SpecAbsolute == InitNormalize /\ [][NextAbsolute]_vars

-----------------------------------------------------------------------------
(* hasVslsPrefix, addVslsPrefixIfNeeded, string argument *)

\* the character class [/|\\] of vslsHasPrefixRegex: slash, vertical bar, backslash
vslsSeparators == {slash, "|", backslash}

external == <<"e", "x", "t", "e", "r", "n", "a", "l">>

\* vslsHasPrefixRegex.test(path), /^[/|\\]~(?:\d+?|external)(?:[/|\\]|$)/: a
\* character of the class, a tilde, then digits or `external`, then a character
\* of the class or the end of the string
vslsHasPrefixRegex(path) ==
    /\ Len(path) >= 3
    /\ path[1] \in vslsSeparators
    /\ path[2] = "~"
    /\ \/ \E k \in 3..Len(path) :
             /\ \A i \in 3..k : path[i] \in Digits
             /\ k = Len(path) \/ path[k + 1] \in vslsSeparators
       \/ /\ Len(path) >= 10
          /\ SubSeq(path, 3, 10) = external
          /\ Len(path) = 10 \/ path[11] \in vslsSeparators

\* hasVslsPrefix(path)
hasVslsPrefix(path) == vslsHasPrefixRegex(path)

\* a root pattern that ends right after the prefix: the bare root only
vslsRootUriRegexBare(path) ==
    /\ Len(path) >= 3
    /\ path[1] \in vslsSeparators
    /\ path[2] = "~"
    /\ \/ \A i \in 3..Len(path) : path[i] \in Digits
       \/ SubSeq(path, 3, Len(path)) = external

\* vslsRootUriRegex.test(path), /^[/|\\]~(?:\d+?|external)(?:[/|\\]|$)/: the
\* pattern of vslsHasPrefixRegex, written out a second time in the source
vslsRootUriRegex(path) ==
    /\ Len(path) >= 3
    /\ path[1] \in vslsSeparators
    /\ path[2] = "~"
    /\ \/ \E k \in 3..Len(path) :
             /\ \A i \in 3..k : path[i] \in Digits
             /\ k = Len(path) \/ path[k + 1] \in vslsSeparators
       \/ /\ Len(path) >= 10
          /\ SubSeq(path, 3, 10) = external
          /\ Len(path) = 10 \/ path[11] \in vslsSeparators

\* isVslsRoot(path)
isVslsRoot(path) == vslsRootUriRegex(path)

\* addVslsPrefixIfNeeded putting '/~0' directly before the normalized path
addVslsPrefixNoSlash(pathOrUri) ==
    IF hasVslsPrefix(pathOrUri)
    THEN pathOrUri
    ELSE <<slash, "~", "0">> \o normalizePath(pathOrUri)

\* addVslsPrefixIfNeeded(pathOrUri), a string that maybeUri rejects: a path with
\* the prefix is returned as it is, any other is normalized and put behind
\* '/~0', with a slash between them when the path does not begin with one
addVslsPrefixIfNeeded(pathOrUri) ==
    IF hasVslsPrefix(pathOrUri)
    THEN pathOrUri
    ELSE LET path == normalizePath(pathOrUri)
         IN  <<slash, "~", "0">> \o
                 (IF startsWithSlash(path) THEN path ELSE <<slash>> \o path)

-----------------------------------------------------------------------------
(* Live Share prefix: one path, prefixed and prefixed again *)

VslsChars == {slash, backslash, "|", "~", "0", "a"}

VslsInputs ==
    StringsUpTo(VslsChars, MaxVslsLen) \union
        {<<slash, "~">> \o external,
         <<backslash, "~">> \o external \o <<slash, "a">>,
         <<slash, "~">> \o external \o <<"a">>,
         <<slash, "~", "0", slash, "a", slash, "b">>}

InitVsls ==
    /\ platform \in Platforms
    /\ arg1 \in VslsInputs
    /\ arg2 = <<>>
    /\ argDelimiter = slash
    /\ argIgnoreCase = "undefined"
    /\ call = "none"
    /\ ret = <<>>
    /\ NoProxy
    /\ NoCache
    /\ NoNode

\* ret = addVslsPrefixIfNeeded(path)
AddVslsPrefixIfNeeded ==
    /\ call = "none"
    /\ ~maybeUri(arg1)
    /\ call' = "addVslsPrefixIfNeeded"
    /\ ret' = addVslsPrefixIfNeeded(arg1)
    /\ UNCHANGED <<platform, arg1, arg2, argDelimiter, argIgnoreCase>>
    /\ UNCHANGED proxyVars
    /\ UNCHANGED cacheVars
    /\ UNCHANGED nodeVars

\* the caller prefixes the result once more: arg2 keeps the first result
AddVslsPrefixAgain ==
    /\ call = "addVslsPrefixIfNeeded"
    /\ ~maybeUri(ret)
    /\ call' = "addVslsPrefixIfNeeded2"
    /\ arg2' = ret
    /\ ret' = addVslsPrefixIfNeeded(ret)
    /\ UNCHANGED <<platform, arg1, argDelimiter, argIgnoreCase>>
    /\ UNCHANGED proxyVars
    /\ UNCHANGED cacheVars
    /\ UNCHANGED nodeVars

\* ret = hasVslsPrefix(path)
HasVslsPrefix ==
    /\ call = "none"
    /\ call' = "hasVslsPrefix"
    /\ ret' = hasVslsPrefix(arg1)
    /\ UNCHANGED <<platform, arg1, arg2, argDelimiter, argIgnoreCase>>
    /\ UNCHANGED proxyVars
    /\ UNCHANGED cacheVars
    /\ UNCHANGED nodeVars

\* ret = isVslsRoot(path)
IsVslsRoot ==
    /\ call = "none"
    /\ call' = "isVslsRoot"
    /\ ret' = isVslsRoot(arg1)
    /\ UNCHANGED <<platform, arg1, arg2, argDelimiter, argIgnoreCase>>
    /\ UNCHANGED proxyVars
    /\ UNCHANGED cacheVars
    /\ UNCHANGED nodeVars

NextVsls == AddVslsPrefixIfNeeded \/ AddVslsPrefixAgain \/ HasVslsPrefix \/ IsVslsRoot

SpecVsls == InitVsls /\ [][NextVsls]_vars

-----------------------------------------------------------------------------
(* createSubProviderProxyForRepo *)

\* the get trap without its final `return value`: only functions come through
proxyGetFunctionsOnly(tgt, rpath, prop) ==
    LET value == tgt[prop]
    IN  IF value.kind = "function"
        THEN [kind |-> "bound", fn |-> value, this |-> "target", rp |-> rpath, last |-> FALSE]
        ELSE Undefined

\* the get trap passing the repository path last
proxyGetAppend(tgt, rpath, prop) ==
    LET value == tgt[prop]
    IN  IF value.kind = "function"
        THEN [kind |-> "bound", fn |-> value, this |-> "target", rp |-> rpath, last |-> TRUE]
        ELSE value

\* the get trap wrapping every member that is not a plain value, an absent
\* method included (value?.call): the wrapper of an absent method calls nothing
proxyGetOptionalCall(tgt, rpath, prop) ==
    LET value == tgt[prop]
    IN  IF value.kind = "value"
        THEN value
        ELSE [kind |-> "bound",
              fn |-> IF value.kind = "function" THEN value ELSE Function("nothing"),
              this |-> "target", rp |-> rpath, last |-> FALSE]

\* The get trap of the proxy: a function member is returned as an arrow function
\* closing over the member's value, the target and rp; any other member as it is.
proxyGet(tgt, rpath, prop) ==
    LET value == tgt[prop]
    IN  IF value.kind = "function"
        THEN [kind |-> "bound", fn |-> value, this |-> "target", rp |-> rpath, last |-> FALSE]
        ELSE value

\* (...args) => value.call(target, rp, ...args): the call the arrow function
\* makes, as the method receives it
boundCall(bound, args) ==
    [fn |-> bound.fn.impl,
     this |-> bound.this,
     args |-> IF bound.last THEN args \o <<bound.rp>> ELSE <<bound.rp>> \o args]

\* what a method of the sub-provider returns: it depends on the method, on the
\* arguments and on the calls made before
methodResult(received, seq) ==
    [kind |-> "result", of |-> received.fn, args |-> received.args, seq |-> seq]

\* how a call of a method completes: it returns its value, it throws it, or it
\* returns a promise that rejects with it
Completions == {"return", "throw", "reject"}

Failures == {"throw", "reject"}

\* the method runs: the call is logged with the way it completed and the value
\* it returned, threw or rejected with
receive(log, received, how) ==
    Append(log, [fn |-> received.fn, this |-> received.this, args |-> received.args,
                 how |-> how,
                 returned |-> methodResult(received, Len(log) + 1)])

\* an arrow function that catches what the method throws and returns undefined
arrowCompletionCatch(completion) ==
    IF completion.how = "throw"
    THEN [how |-> "return", value |-> Undefined]
    ELSE completion

\* The arrow function's body is the call expression alone, with no try, catch,
\* await or then around it: it completes the way value.call(...) completes,
\* with the same value.
arrowCompletion(completion) == completion

InitProxy ==
    /\ platform = "linux"
    /\ call = "none"
    /\ arg1 = <<>>
    /\ arg2 = <<>>
    /\ argDelimiter = slash
    /\ argIgnoreCase = "undefined"
    /\ ret = <<>>
    /\ \E opt \in {Undefined, Function("createBranch")}, v \in FieldValues :
          target = [getBranch |-> Function("getBranch"),
                    createBranch |-> opt,
                    container |-> Value(v)]
    /\ rp \in RepoPaths
    /\ calls = <<>>
    /\ lastOp = [op |-> "none"]
    /\ NoCache
    /\ NoNode

\* bound.m(a1..an): the member is read through the view and called at once
ViewInvoke ==
    \E prop \in Props, args \in ArgLists :
        LET got == proxyGet(target, rp, prop)
        IN  /\ Len(calls) < MaxCalls
            /\ got.kind = "bound"
            /\ \E how \in Completions :
                  /\ calls' = receive(calls, boundCall(got, args), how)
                  /\ LET done == arrowCompletion(
                                     [how |-> how,
                                      value |-> calls'[Len(calls')].returned])
                     IN  lastOp' = [op |-> "invoke", prop |-> prop, args |-> args,
                                    how |-> done.how, result |-> done.value,
                                    before |-> Len(calls)]
            /\ UNCHANGED <<target, rp>>
            /\ UNCHANGED pathVars
            /\ UNCHANGED cacheVars
            /\ UNCHANGED nodeVars

\* bound.m: the member is read through the view
ViewRead ==
    \E prop \in Props :
        /\ lastOp' = [op |-> "read", prop |-> prop,
                      result |-> proxyGet(target, rp, prop),
                      before |-> Len(calls), targetBefore |-> target]
        /\ UNCHANGED <<target, rp, calls>>
        /\ UNCHANGED pathVars
        /\ UNCHANGED cacheVars
        /\ UNCHANGED nodeVars

\* target.m(repoPath, a1..an): another caller invokes the sub-provider directly
DirectCall ==
    \E prop \in Props, rpath \in RepoPaths, args \in ArgLists, how \in Completions :
        /\ Len(calls) < MaxCalls
        /\ target[prop].kind = "function"
        /\ calls' = receive(calls, [fn |-> target[prop].impl, this |-> "target",
                                    args |-> <<rpath>> \o args], how)
        /\ lastOp' = [op |-> "direct"]
        /\ UNCHANGED <<target, rp>>
        /\ UNCHANGED pathVars
        /\ UNCHANGED cacheVars
        /\ UNCHANGED nodeVars

\* the object behind the view changes a field of its own
SetField ==
    \E v \in FieldValues :
        /\ target.container # Value(v)
        /\ target' = [target EXCEPT !.container = Value(v)]
        /\ lastOp' = [op |-> "set"]
        /\ UNCHANGED <<rp, calls>>
        /\ UNCHANGED pathVars
        /\ UNCHANGED cacheVars
        /\ UNCHANGED nodeVars

NextProxy == ViewInvoke \/ ViewRead \/ DirectCall \/ SetField

SpecProxy == InitProxy /\ [][NextProxy]_vars

-----------------------------------------------------------------------------
(* The caches of a repository and their invalidation *)

\* the repository-scoped keys with `tags` among them
gitRepositoryCacheKeysWithTags == {"branches", "remotes", "tags"}

\* the repository-scoped keys without `remotes`
gitRepositoryCacheKeysBranchesOnly == {"branches"}

\* gitRepositoryCacheKeys: the keys a change of the repository invalidates
gitRepositoryCacheKeys == {"branches", "remotes"}

\* a population of the entry `key` of repository `repo`, begun after `fetched`
\* change events; waiters are the reads that await it, each by the number of
\* change events fired when it was issued; an orphan was in flight when its
\* entry was invalidated and will populate nothing
Fetch(id, repo, key, fetched, waiters, orphan) ==
    [id |-> id, repo |-> repo, key |-> key, fetched |-> fetched,
     waiters |-> waiters, orphan |-> orphan]

\* the populations of the entry that are in flight and will populate it
populating(r, k) == {f \in fetches : f.repo = r /\ f.key = k /\ ~f.orphan}

\* the populations in flight after the invalidation of the entries `keys` of r
orphaned(r, keys) ==
    {IF f.repo = r /\ f.key \in keys
     THEN [f EXCEPT !.orphan = TRUE] ELSE f : f \in fetches}

\* the keys read in the model: the repository-scoped ones and one of the others
ReadKeys == {"branches", "remotes", "tags"}

InitCache ==
    /\ platform = "linux"
    /\ call = "none"
    /\ arg1 = <<>>
    /\ arg2 = <<>>
    /\ argDelimiter = slash
    /\ argIgnoreCase = "undefined"
    /\ ret = <<>>
    /\ NoProxy
    /\ NoCache
    /\ NoNode

\* a read that starts a population whenever the entry holds no value, a
\* population being under way or not
ReadAlwaysFetch ==
    \E r \in RepoPaths, k \in ReadKeys :
        LET entry == cache[r][k]
            done(served) == [op |-> "read", repo |-> r, key |-> k,
                             found |-> entry.st, served |-> served,
                             startedBefore |-> started]
        IN  /\ \/ /\ entry.st = "cached"
                  /\ lastCache' = done({[issued |-> epoch[r], fetched |-> entry.fetched]})
                  /\ UNCHANGED <<cache, fetches, started>>
               \/ /\ entry.st # "cached"
                  /\ started < MaxFetches
                  /\ started' = started + 1
                  /\ fetches' = fetches \union
                         {Fetch(started + 1, r, k, epoch[r], {epoch[r]}, FALSE)}
                  /\ cache' = [cache EXCEPT ![r][k] = Pending]
                  /\ lastCache' = done({})
            /\ UNCHANGED epoch
            /\ UNCHANGED pathVars
            /\ UNCHANGED proxyVars
            /\ UNCHANGED nodeVars

\* A read of the entry `k` of repository r: a cached value is served at once; a
\* read that finds a population under way awaits that population; a read that
\* finds nothing starts the population and awaits it.
Read ==
    \E r \in RepoPaths, k \in ReadKeys :
        LET entry == cache[r][k]
            done(served) == [op |-> "read", repo |-> r, key |-> k,
                             found |-> entry.st, served |-> served,
                             startedBefore |-> started]
        IN  /\ \/ /\ entry.st = "cached"
                  /\ lastCache' = done({[issued |-> epoch[r], fetched |-> entry.fetched]})
                  /\ UNCHANGED <<cache, fetches, started>>
               \/ /\ entry.st = "pending"
                  /\ fetches' = {IF f \in populating(r, k)
                                 THEN [f EXCEPT !.waiters = @ \union {epoch[r]}]
                                 ELSE f : f \in fetches}
                  /\ lastCache' = done({})
                  /\ UNCHANGED <<cache, started>>
               \/ /\ entry.st = "unset"
                  /\ started < MaxFetches
                  /\ started' = started + 1
                  /\ fetches' = fetches \union
                         {Fetch(started + 1, r, k, epoch[r], {epoch[r]}, FALSE)}
                  /\ cache' = [cache EXCEPT ![r][k] = Pending]
                  /\ lastCache' = done({})
            /\ UNCHANGED epoch
            /\ UNCHANGED pathVars
            /\ UNCHANGED proxyVars
            /\ UNCHANGED nodeVars

\* onDidChangeRepository fires for r: the repository-scoped entries of r are
\* cleared, and a population of one of them that is in flight will not
\* populate it
RepositoryChange ==
    \E r \in RepoPaths :
        /\ epoch[r] < MaxChanges
        /\ epoch' = [epoch EXCEPT ![r] = @ + 1]
        /\ cache' = [cache EXCEPT ![r] =
                         [k \in GitCaches |->
                             IF k \in gitRepositoryCacheKeys THEN Unset ELSE @[k]]]
        /\ fetches' = orphaned(r, gitRepositoryCacheKeys)
        /\ lastCache' = [op |-> "change", repo |-> r, before |-> cache]
        /\ UNCHANGED started
        /\ UNCHANGED pathVars
        /\ UNCHANGED proxyVars
        /\ UNCHANGED nodeVars

\* the narrower signal of a key that is not repository-scoped (a call that
\* changes the stashes invalidates `stashes`) clears that entry alone
Invalidate ==
    \E r \in RepoPaths, k \in ReadKeys \ gitRepositoryCacheKeys :
        /\ cache[r][k] # Unset
        /\ cache' = [cache EXCEPT ![r][k] = Unset]
        /\ fetches' = orphaned(r, {k})
        /\ lastCache' = [op |-> "invalidate", repo |-> r, key |-> k]
        /\ UNCHANGED <<epoch, started>>
        /\ UNCHANGED pathVars
        /\ UNCHANGED proxyVars
        /\ UNCHANGED nodeVars

\* a population completes: its value replaces the entry, unless the entry was
\* invalidated meanwhile, and the reads that awaited it are served its value
FetchResolve ==
    \E f \in fetches :
        /\ fetches' = fetches \ {f}
        /\ cache' = IF f.orphan THEN cache
                    ELSE [cache EXCEPT ![f.repo][f.key] = Cached(f.fetched)]
        /\ lastCache' = [op |-> "resolve", repo |-> f.repo, key |-> f.key,
                         served |-> {[issued |-> w, fetched |-> f.fetched] :
                                        w \in f.waiters}]
        /\ UNCHANGED <<epoch, started>>
        /\ UNCHANGED pathVars
        /\ UNCHANGED proxyVars
        /\ UNCHANGED nodeVars

\* a population fails: the entry is left unset and nothing is served
FetchFail ==
    \E f \in fetches :
        /\ fetches' = fetches \ {f}
        /\ cache' = IF f.orphan THEN cache
                    ELSE [cache EXCEPT ![f.repo][f.key] = Unset]
        /\ lastCache' = [op |-> "fail", repo |-> f.repo, key |-> f.key]
        /\ UNCHANGED <<epoch, started>>
        /\ UNCHANGED pathVars
        /\ UNCHANGED proxyVars
        /\ UNCHANGED nodeVars

NextCache == Read \/ RepositoryChange \/ Invalidate \/ FetchResolve \/ FetchFail

SpecCache == InitCache /\ [][NextCache]_vars

-----------------------------------------------------------------------------
(* CommitFileNode and CommitNode: the cached details *)

NodeClasses == {"CommitFileNode", "CommitNode"}

\* the value loadDetails stores: what the queries of call `by` returned, that
\* call having begun after `resetsAtStart` calls of refresh(true)
Details(by, resetsAtStart) ==
    [kind |-> "details", by |-> by, resetsAtStart |-> resetsAtStart]

\* a loadDetails call suspended on the query `pc`
Load(id, pc, resetsAtStart) == [id |-> id, pc |-> pc, resetsAtStart |-> resetsAtStart]

\* !this._options.displayAsCommit is tested by CommitFileNode alone
displayAsCommit == node = "CommitNode" \/ _options.displayAsCommit

\* a step of a method: the method, the await it resumed from ("call" for the
\* call itself), the query it issued, the reset argument and _details before
Step(op, at, query, reset) ==
    [op |-> op, at |-> at, query |-> query, reset |-> reset,
     detailsBefore |-> _details]

InitNode ==
    /\ platform = "linux"
    /\ call = "none"
    /\ arg1 = <<>>
    /\ arg2 = <<>>
    /\ argDelimiter = slash
    /\ argIgnoreCase = "undefined"
    /\ ret = <<>>
    /\ NoProxy
    /\ NoCache
    /\ node \in NodeClasses
    /\ _options \in IF node = "CommitFileNode"
                    THEN {[displayAsCommit |-> b] : b \in BOOLEAN}
                    ELSE {[displayAsCommit |-> FALSE]}
    /\ _details = Undefined
    /\ loads = {}
    /\ loadCalls = 0
    /\ resets = 0
    /\ lastNode = [op |-> "none"]

\* loadDetails up to its first await: it returns at once when the details are
\* set or the node is not displayed as a commit, and otherwise asks for the
\* remotes and is suspended
loadDetails(op) ==
    IF _details # Undefined \/ ~displayAsCommit
    THEN /\ lastNode' = Step(op, "call", "none", FALSE)
         /\ UNCHANGED <<loads, loadCalls>>
    ELSE /\ loadCalls < MaxLoads
         /\ loadCalls' = loadCalls + 1
         /\ loads' = loads \union {Load(loadCalls + 1, "getRemotes", resets)}
         /\ lastNode' = Step(op, "call", "getRemotes", FALSE)

\* node.loadDetails()
LoadDetails ==
    /\ loadDetails("loadDetails")
    /\ UNCHANGED <<node, _options, _details, resets>>
    /\ UNCHANGED pathVars
    /\ UNCHANGED proxyVars
    /\ UNCHANGED cacheVars

\* getRemotes has answered: the call asks for the rich remote provider
GotRemotes ==
    \E l \in loads :
        /\ l.pc = "getRemotes"
        /\ loads' = (loads \ {l}) \union {[l EXCEPT !.pc = "getRichRemoteProvider"]}
        /\ lastNode' = Step("loadDetails", "getRemotes", "getRichRemoteProvider", FALSE)
        /\ UNCHANGED <<node, _options, _details, loadCalls, resets>>
        /\ UNCHANGED pathVars
        /\ UNCHANGED proxyVars
        /\ UNCHANGED cacheVars

\* getRichRemoteProvider has answered: without a provider the call returns,
\* with one it asks for the autolinks and the pull request
GotRichRemoteProvider ==
    \E l \in loads, provider \in BOOLEAN :
        /\ l.pc = "getRichRemoteProvider"
        /\ IF provider
           THEN /\ loads' = (loads \ {l}) \union {[l EXCEPT !.pc = "Promise.all"]}
                /\ lastNode' = Step("loadDetails", "getRichRemoteProvider",
                                    "getPullRequestForCommit", FALSE)
           ELSE /\ loads' = loads \ {l}
                /\ lastNode' = Step("loadDetails", "getRichRemoteProvider", "none", FALSE)
        /\ UNCHANGED <<node, _options, _details, loadCalls, resets>>
        /\ UNCHANGED pathVars
        /\ UNCHANGED proxyVars
        /\ UNCHANGED cacheVars

\* the autolinks and the pull request have arrived: the call stores the details
GotLinksAndPullRequest ==
    \E l \in loads :
        /\ l.pc = "Promise.all"
        /\ _details' = Details(l.id, l.resetsAtStart)
        /\ loads' = loads \ {l}
        /\ lastNode' = Step("loadDetails", "Promise.all", "none", FALSE)
        /\ UNCHANGED <<node, _options, loadCalls, resets>>
        /\ UNCHANGED pathVars
        /\ UNCHANGED proxyVars
        /\ UNCHANGED cacheVars

\* node.resolveTreeItem(item) up to its first await: for an item without
\* tooltip, loadDetails is called when the details are unset
ResolveTreeItem ==
    \E tooltip \in BOOLEAN :
        /\ IF ~tooltip /\ displayAsCommit /\ _details = Undefined
           THEN loadDetails("resolveTreeItem")
           ELSE /\ lastNode' = Step("resolveTreeItem", "call", "none", FALSE)
                /\ UNCHANGED <<loads, loadCalls>>
        /\ UNCHANGED <<node, _options, _details, resets>>
        /\ UNCHANGED pathVars
        /\ UNCHANGED proxyVars
        /\ UNCHANGED cacheVars

\* node.getTreeItem(): the details are read for the context value and the tooltip
GetTreeItem ==
    /\ lastNode' = Step("getTreeItem", "call", "none", FALSE)
    /\ UNCHANGED <<node, _options, _details, loads, loadCalls, resets>>
    /\ UNCHANGED pathVars
    /\ UNCHANGED proxyVars
    /\ UNCHANGED cacheVars

\* refresh that clears the details whatever its argument
RefreshAlways ==
    \E reset \in BOOLEAN :
        /\ resets < MaxResets
        /\ _details' = Undefined
        /\ resets' = resets + 1
        /\ lastNode' = Step("refresh", "call", "none", reset)
        /\ UNCHANGED <<node, _options, loads, loadCalls>>
        /\ UNCHANGED pathVars
        /\ UNCHANGED proxyVars
        /\ UNCHANGED cacheVars

\* node.refresh(reset)
Refresh ==
    \E reset \in BOOLEAN :
        /\ IF reset
           THEN /\ resets < MaxResets
                /\ _details' = Undefined
                /\ resets' = resets + 1
           ELSE UNCHANGED <<_details, resets>>
        /\ lastNode' = Step("refresh", "call", "none", reset)
        /\ UNCHANGED <<node, _options, loads, loadCalls>>
        /\ UNCHANGED pathVars
        /\ UNCHANGED proxyVars
        /\ UNCHANGED cacheVars

NextNode ==
    \/ LoadDetails
    \/ GotRemotes
    \/ GotRichRemoteProvider
    \/ GotLinksAndPullRequest
    \/ ResolveTreeItem
    \/ GetTreeItem
    \/ Refresh

SpecNode == InitNode /\ [][NextNode]_vars

-----------------------------------------------------------------------------
(* Properties of normalizePath *)

isSeparator(c) == c \in {slash, backslash}

\* the string ends in two or more separators of either style
EndsInSeveralSeparators(s) ==
    /\ Len(s) >= 2
    /\ isSeparator(s[Len(s)])
    /\ isSeparator(s[Len(s) - 1])

\* C1 as stated: normalizePath is idempotent for every path string, strings
\* ending in several separators included: normalizing the result of
\* normalizePath again returns it unchanged.
C1_IdempotentForAll ==
    call = "normalizePath2" => ret = arg2

\* C1 amended: normalizePath is idempotent for every path string that does not
\* end in two or more separators; normalizePath(normalizePath(p)) =
\* normalizePath(p) for those.
C1_IdempotentSingleTrailing ==
    (call = "normalizePath2" /\ ~EndsInSeveralSeparators(arg1)) => ret = arg2

\* a path with one trailing separator was normalized twice, the first
\* normalization changed it and the second did not
C1_Witness ==
    /\ call = "normalizePath2"
    /\ Len(arg1) >= 2
    /\ isSeparator(arg1[Len(arg1)])
    /\ ~EndsInSeveralSeparators(arg1)
    /\ arg2 # arg1
    /\ ret = arg2

\* the path begins with an upper-case drive letter, a colon and a separator
BeginsWithDrive(s) ==
    /\ Len(s) >= 3
    /\ s[1] \in UpperCase
    /\ s[2] = ":"
    /\ isSeparator(s[3])

\* what C2 says normalizePath returns: backslashes replaced, one trailing
\* separator removed, and on a drive-letter platform the drive letter of a
\* path beginning with one lowercased
C2_Described(s) ==
    LET p1 == [i \in 1..Len(s) |-> IF s[i] = backslash THEN slash ELSE s[i]]
        p2 == IF p1[Len(p1)] = slash THEN SubSeq(p1, 1, Len(p1) - 1) ELSE p1
    IN  IF isWindows /\ BeginsWithDrive(s)
        THEN <<LowerChar(p2[1])>> \o SubSeq(p2, 2, Len(p2))
        ELSE p2

\* C2: for every non-empty path normalizePath returns the input with every
\* backslash replaced by '/', one trailing separator removed and, on a
\* drive-letter platform, the drive letter lowercased for every path that
\* begins with a drive letter, a bare drive root such as 'C:\' included.
C2_NormalizeAsDescribed ==
    (call = "normalizePath" /\ arg1 # <<>>) => ret = C2_Described(arg1)

-----------------------------------------------------------------------------
(* Properties of commonBaseIndex *)

\* the comparison in effect folds case: ignoreCase is true, or it is omitted
\* and the platform is not Linux
ComparesIgnoringCase ==
    \/ argIgnoreCase = "true"
    \/ argIgnoreCase = "undefined" /\ platform # "linux"

SameChar(c1, c2) ==
    IF ComparesIgnoringCase THEN LowerChar(c1) = LowerChar(c2) ELSE c1 = c2

\* the 0-based indexes i at which s1 holds the delimiter and s1[0..i] matches
\* s2[0..i] under the comparison in effect
CommonBoundaries(s1, s2, d) ==
    {i \in 0..(Len(s1) - 1) :
        /\ i < Len(s2)
        /\ SameChar(s1[i + 1], d)
        /\ \A j \in 0..i : SameChar(s1[j + 1], s2[j + 1])}

SetMax(S) == CHOOSE x \in S : \A y \in S : y <= x

\* C3: commonBaseIndex returns the greatest index i such that s1[i] is the
\* delimiter and s1[0..i] equals s2[0..i] under the comparison in effect, and
\* 0 when the strings diverge at position 0, when there is no such delimiter
\* or when either string is empty.
C3_LastCommonDelimiter ==
    call = "commonBaseIndex" =>
        LET S == CommonBoundaries(arg1, arg2, argDelimiter)
        IN  /\ ret = IF S = {} THEN 0 ELSE SetMax(S)
            /\ (arg1 = <<>> \/ arg2 = <<>>) => ret = 0
            /\ (arg1 # <<>> /\ arg2 # <<>> /\ ~SameChar(arg1[1], arg2[1])) => ret = 0

\* two different strings share a prefix that ends at a delimiter beyond
\* position 0 and go on after it; the index of that delimiter is returned
C3_Witness ==
    /\ call = "commonBaseIndex"
    /\ ret > 0
    /\ Len(arg1) > ret + 1
    /\ Len(arg2) > ret + 1
    /\ arg1[ret + 2] # arg2[ret + 2]

\* C4: commonBaseIndex compares case-insensitively when ignoreCase is true, or
\* omitted on a platform other than Linux, and case-sensitively when it is
\* false, or omitted on Linux: in the first case the result is that of an
\* exact comparison of the lower-cased strings, in the second that of an exact
\* comparison of the strings as given; '/A/a' against '/a/A' gives 2 in the
\* first case and 0 in the second.
C4_CaseRule ==
    call = "commonBaseIndex" =>
        /\ ret = IF ComparesIgnoringCase
                 THEN commonBaseIndex(toLowerCase(arg1), toLowerCase(arg2),
                                      argDelimiter, "false")
                 ELSE commonBaseIndex(arg1, arg2, argDelimiter, "false")
        /\ (/\ arg1 = <<"/", "A", "/", "a">>
            /\ arg2 = <<"/", "a", "/", "A">>
            /\ argDelimiter = slash)
           => ret = IF ComparesIgnoringCase THEN 2 ELSE 0

\* '/A/a' was compared with '/a/A' with ignoreCase omitted on a platform other
\* than Linux, and the letters were taken as equal
C4_Witness ==
    /\ call = "commonBaseIndex"
    /\ arg1 = <<"/", "A", "/", "a">>
    /\ arg2 = <<"/", "a", "/", "A">>
    /\ argIgnoreCase = "undefined"
    /\ platform = "darwin"
    /\ ret = 2

-----------------------------------------------------------------------------
(* Properties of isDescendent and isChild *)

\* a path as the descendant test reads it: backslashes to '/', one trailing
\* separator stripped, and a leading '/' added when there is none
Rooted(s) ==
    LET p1 == [i \in 1..Len(s) |-> IF isSeparator(s[i]) THEN slash ELSE s[i]]
        p2 == IF Len(p1) > 0 /\ p1[Len(p1)] = slash
              THEN SubSeq(p1, 1, Len(p1) - 1) ELSE p1
    IN  IF Len(p2) > 0 /\ p2[1] = slash THEN p2 ELSE <<slash>> \o p2

IsPrefixOf(pre, s) == Len(pre) <= Len(s) /\ SubSeq(s, 1, Len(pre)) = pre

\* C5 as stated: isDescendent(path, base) is true iff, both being normalized
\* and given a leading '/', base is the root '/' or path starts with base
\* followed by a '/' separator.
C5_DescendentIffBaseSlash ==
    call = "isDescendent" =>
        (ret <=> \/ Rooted(arg2) = <<slash>>
                 \/ IsPrefixOf(Rooted(arg2) \o <<slash>>, Rooted(arg1)))

\* C5 amended: isDescendent(path, base) is true iff, both being normalized and
\* given a leading '/', base is the root '/' or path starts with base followed
\* by a '/' separator, where a base that still ends in '/' after normalization
\* (the argument ended in several separators) is followed by none.
C5_DescendentIffBoundary ==
    call = "isDescendent" =>
        LET b == Rooted(arg2)
            boundary == IF b[Len(b)] = slash THEN b ELSE b \o <<slash>>
        IN  /\ ret <=> (b = <<slash>> \/ IsPrefixOf(boundary, Rooted(arg1)))
            /\ (arg1 = <<"/", "a", "a">> /\ arg2 = <<"/", "a">>) => ~ret
            /\ (arg1 = <<"/", "a", "/", "a">> /\ arg2 = <<"/", "a">>) => ret

\* '/a/a' was found to be a descendant of '/a'
C5_Witness ==
    /\ call = "isDescendent"
    /\ arg1 = <<"/", "a", "/", "a">>
    /\ arg2 = <<"/", "a">>
    /\ ret

\* the part of the path beyond the base, both read as by the descendant test
Beyond(path, base) ==
    LET b == Rooted(base)
        boundary == IF b[Len(b)] = slash THEN b ELSE b \o <<slash>>
        p == Rooted(path)
    IN  IF Len(p) <= Len(boundary) THEN <<>>
        ELSE SubSeq(p, Len(boundary) + 1, Len(p))

\* the path has exactly one segment beyond the base
OneSegmentBeyond(path, base) ==
    LET r == Beyond(path, base)
    IN  r # <<>> /\ \A i \in 1..Len(r) : r[i] # slash

\* the string names a segment and has no empty segment between separators
NoEmptySegment(s) ==
    /\ \E i \in 1..Len(s) : ~isSeparator(s[i])
    /\ \A i \in 1..(Len(s) - 1) : ~(isSeparator(s[i]) /\ isSeparator(s[i + 1]))

\* C6: for all paths and bases accepted by isDescendent, in either separator
\* style and with or without a leading or trailing separator, isChild(p, b) is
\* true iff isDescendent(p, b) is true and p has exactly one path segment
\* beyond b (stated here for the paths and bases without empty segments).
C6_ChildIffOneSegment ==
    (call = "isChild" /\ NoEmptySegment(arg1) /\ NoEmptySegment(arg2)) =>
        (ret <=> isDescendent(arg1, arg2) /\ OneSegmentBeyond(arg1, arg2))

-----------------------------------------------------------------------------
(* Properties of relative and splitPath *)

\* a plain path in normal form: backslashes to '/', one trailing separator
\* stripped
Slashed(s) ==
    LET p1 == [i \in 1..Len(s) |-> IF isSeparator(s[i]) THEN slash ELSE s[i]]
    IN  IF Len(p1) > 0 /\ p1[Len(p1)] = slash
        THEN SubSeq(p1, 1, Len(p1) - 1) ELSE p1

\* s without its first n characters
DropFirst(s, n) == IF n >= Len(s) THEN <<>> ELSE SubSeq(s, n + 1, Len(s))

\* C7: relative(from, to) removes from normalized `to` the prefix up to and
\* including the last '/'-aligned boundary common to `to/` and `from/` and
\* returns the remainder; a partial-segment match is never stripped (from
\* '/a', to '/aa' returns '/aa') and without a common boundary beyond the root
\* the whole normalized `to` is returned.
C7_RelativeStripsCommonBoundary ==
    call = "relative" =>
        LET t == Slashed(arg1)
            f == Slashed(arg2)
            S == CommonBoundaries(t \o <<slash>>, f \o <<slash>>, slash) \ {0}
        IN  /\ ret = IF S = {} THEN t ELSE DropFirst(t, SetMax(S) + 1)
            /\ (arg2 = <<"/", "a">> /\ arg1 = <<"/", "a", "a">>) => ret = arg1

\* relative('/a', '/a/a') stripped the common directory and returned 'a'
C7_Witness ==
    /\ call = "relative"
    /\ arg2 = <<"/", "a">>
    /\ arg1 = <<"/", "a", "/", "a">>
    /\ ret = <<"a">>

-----------------------------------------------------------------------------
(* Properties of the sub-provider view *)

\* C9: every invocation bound.m(a1..an) on the view invokes target.m exactly
\* once, with `this` = target and the arguments (rp, a1..an) in that order, and
\* returns what target.m returned; this holds for every call of any sequence
\* of calls (rp does not change and no result is replayed).
C9_ForwardsOnceWithRepoPath ==
    lastOp.op = "invoke" =>
        /\ Len(calls) = lastOp.before + 1
        /\ calls[Len(calls)].fn = target[lastOp.prop].impl
        /\ calls[Len(calls)].this = "target"
        /\ calls[Len(calls)].args = <<rp>> \o lastOp.args
        /\ lastOp.result = calls[Len(calls)].returned
        /\ lastOp.result.seq = Len(calls)

\* a second call went through the view, with two arguments of its own, after
\* an earlier call had returned another result
C9_Witness ==
    /\ lastOp.op = "invoke"
    /\ lastOp.args = <<"x", "y">>
    /\ Len(calls) = 2
    /\ calls[2].args = <<rp, "x", "y">>
    /\ calls[1].returned # calls[2].returned

\* C10: reading a non-function member through the view returns the
\* sub-provider's current value of that member, unwrapped, and changes nothing
\* of the target.
C10_ReadPassesThrough ==
    (lastOp.op = "read" /\ lastOp.targetBefore[lastOp.prop].kind # "function") =>
        /\ lastOp.result = target[lastOp.prop]
        /\ target = lastOp.targetBefore
        /\ Len(calls) = lastOp.before

\* the field was read through the view, after calls on the sub-provider, and
\* its value came back
C10_Witness ==
    /\ lastOp.op = "read"
    /\ lastOp.prop = "container"
    /\ lastOp.result \in {Value(v) : v \in FieldValues}
    /\ Len(calls) > 0

-----------------------------------------------------------------------------
(* Failures and absent members through the bound view *)

\* C11: a call made through the bound view has reached the sub-provider by the
\* time the call completes (it is the next entry of the sub-provider's call log,
\* nothing is queued), and when the method fails, by throwing or by returning a
\* promise that rejects, the caller observes the same kind of failure with the
\* same failure value: it is neither swallowed nor replaced.
C11_FailureReachesCaller ==
    lastOp.op = "invoke" =>
        /\ Len(calls) = lastOp.before + 1
        /\ calls[Len(calls)].how \in Failures =>
              /\ lastOp.how = calls[Len(calls)].how
              /\ lastOp.result = calls[Len(calls)].returned

\* a call through the view has just failed, one way and the other
C11_Witness ==
    /\ lastOp.op = "invoke"
    /\ lastOp.how = "throw"
    /\ Len(calls) = 2
    /\ calls[1].how = "reject"

\* C12: reading through the bound view a member that the sub-provider does not
\* implement yields undefined, not a wrapper, so that a presence check on the
\* view answers as the same check on the sub-provider does.
C12_AbsentMemberIsUndefined ==
    lastOp.op = "read" =>
        /\ lastOp.targetBefore[lastOp.prop] = Undefined => lastOp.result = Undefined
        /\ (lastOp.result # Undefined) <=> (lastOp.targetBefore[lastOp.prop] # Undefined)

\* the optional createBranch, not implemented, has just been read through the view
C12_Witness ==
    /\ lastOp.op = "read"
    /\ lastOp.prop = "createBranch"
    /\ target.createBranch = Undefined
    /\ lastOp.result = Undefined

-----------------------------------------------------------------------------
(* Properties of the Live Share prefix *)

\* C13: for a plain path (no URI scheme) without the prefix,
\* addVslsPrefixIfNeeded returns a path that hasVslsPrefix accepts; a path that
\* already has the prefix is returned unchanged; so prefixing the result again
\* changes nothing.
C13_PrefixOnceAndForAll ==
    /\ call = "addVslsPrefixIfNeeded" =>
          /\ hasVslsPrefix(ret)
          /\ hasVslsPrefix(arg1) => ret = arg1
    /\ call = "addVslsPrefixIfNeeded2" => ret = arg2

\* a path without the prefix, with a backslash in it, was prefixed twice
C13_Witness ==
    /\ call = "addVslsPrefixIfNeeded2"
    /\ ~hasVslsPrefix(arg1)
    /\ \E i \in 1..Len(arg1) : arg1[i] = backslash
    /\ arg1[1] # slash
    /\ ret = arg2
    /\ ret # arg1

-----------------------------------------------------------------------------
(* Properties of isAbsolute *)

\* a letter, then one or more letters, digits, '_', '+', '-' or '.', then a colon
BeginsWithSchemeToken(s) ==
    \E k \in 3..Len(s) :
        /\ s[k] = ":"
        /\ s[1] \in Letters
        /\ \A i \in 2..(k - 1) : s[i] \in Letters \union Digits \union {"_", "+", "-", "."}

\* absolute for the operating system: rooted at a separator, or on Windows at a
\* drive letter, a colon and a separator
OSAbsolute(s) ==
    /\ Len(s) > 0
    /\ IF platform = "win32"
       THEN \/ isSeparator(s[1])
            \/ Len(s) > 2 /\ s[1] \in Letters /\ s[2] = ":" /\ isSeparator(s[3])
       ELSE s[1] = slash

\* C14: isAbsolute(path) is true exactly when path does not begin with a URI
\* scheme token and is absolute for the operating system: a string that begins
\* with a scheme token is never absolute, and one drive letter with a colon is
\* not a scheme, so that 'C:/a' is absolute on Windows.
C14_AbsoluteIffNoSchemeAndRooted ==
    call = "isAbsolute" =>
        /\ ret <=> (~BeginsWithSchemeToken(arg1) /\ OSAbsolute(arg1))
        /\ BeginsWithSchemeToken(arg1) => ~ret
        /\ (platform = "win32" /\ Len(arg1) > 2 /\ arg1[1] \in Letters
               /\ arg1[2] = ":" /\ isSeparator(arg1[3])) => ret

\* a drive-letter path was found absolute on Windows
C14_Witness ==
    /\ call = "isAbsolute"
    /\ platform = "win32"
    /\ arg1 = <<"C", ":", slash, "a">>
    /\ ret

-----------------------------------------------------------------------------
(* Properties of commonBase *)

\* C15: commonBase returns the prefix of s1 that ends at, and includes, the last
\* delimiter common to both strings, and returns undefined exactly when the
\* strings share no delimiter boundary: '/a' and '/b' share the boundary at
\* index 0 and yield '/'.
C15_UndefinedIffNoBoundary ==
    call = "commonBase" =>
        LET S == CommonBoundaries(arg1, arg2, argDelimiter)
        IN  /\ (ret = Undefined) <=> (S = {})
            /\ S # {} => ret = Value(SubSeq(arg1, 1, SetMax(S) + 1))

\* C15, amended: commonBase returns the prefix of s1 that ends at, and includes,
\* the last delimiter common to both strings when that delimiter lies beyond
\* index 0, and returns undefined exactly when the strings share no delimiter
\* boundary beyond index 0: '/a' and '/b' yield undefined.
C15_UndefinedIffNoBoundaryBeyondRoot ==
    call = "commonBase" =>
        LET S == CommonBoundaries(arg1, arg2, argDelimiter) \ {0}
        IN  /\ (ret = Undefined) <=> (S = {})
            /\ S # {} => ret = Value(SubSeq(arg1, 1, SetMax(S) + 1))

\* '/a/' and '/A' share the boundary at index 0 only, whatever the case rule:
\* undefined was returned
C15_Witness ==
    /\ call = "commonBase"
    /\ arg1 = <<slash, "a", slash>>
    /\ arg2 = <<slash, "A">>
    /\ ~ComparesIgnoringCase
    /\ ret = Undefined

-----------------------------------------------------------------------------
(* Properties of isDescendent on Uris *)

\* the path lies under the base path: the base path is one character (the
\* root), or the path begins with the base path and a slash
UriPathUnder(path, basePath) ==
    \/ Len(basePath) = 1
    \/ IsPrefixOf(IF basePath # <<>> /\ basePath[Len(basePath)] = slash
                  THEN basePath ELSE basePath \o <<slash>>, path)

\* C16: for two Uris isDescendent is true only if the scheme and the authority
\* of the path equal those of the base, besides the path lying under the base
\* path; a path under the base path with another scheme or another authority is
\* not a descendant.
C16_SchemeAndAuthorityMatch ==
    call = "isDescendentUri" =>
        /\ ret <=> /\ arg1.scheme = arg2.scheme
                   /\ arg1.authority = arg2.authority
                   /\ UriPathUnder(arg1.path, arg2.path)
        /\ (arg1.scheme # arg2.scheme \/ arg1.authority # arg2.authority) => ~ret

\* a Uri under the base path, of the same scheme and of another authority, was
\* found not to be a descendant
C16_Witness ==
    /\ call = "isDescendentUri"
    /\ arg2.path = <<slash, "a">>
    /\ arg1.path = <<slash, "a", slash>>
    /\ arg1.scheme = arg2.scheme
    /\ arg1.authority # arg2.authority
    /\ ~ret

-----------------------------------------------------------------------------
(* Letter case in isDescendent and isChild *)

\* C17: off Linux isDescendent(p, b) and isChild(p, b) compare without regard
\* to letter case, as commonBaseIndex, relative and splitPath do by default: the
\* answer for p and b is the answer for p and b in lower case.
C17_CaseInsensitiveOffLinux ==
    platform # "linux" =>
        /\ call = "isDescendent" =>
              ret = isDescendent(toLowerCase(arg1), toLowerCase(arg2))
        /\ call = "isChild" =>
              ret = isChild(toLowerCase(arg1), toLowerCase(arg2))

-----------------------------------------------------------------------------
(* Properties of the caches *)

\* C18: the cache keys are the eight names branches, contributors, providers,
\* remotes, stashes, status, tags and worktrees; the repository-scoped keys are
\* exactly branches and remotes; a change event of repository R clears exactly
\* the branches and remotes entries of R and leaves every other entry of R and
\* every entry of every other repository as it was.
C18_ChangeClearsBranchesAndRemotes ==
    /\ GitCaches = {"branches", "contributors", "providers", "remotes",
                    "stashes", "status", "tags", "worktrees"}
    /\ gitRepositoryCacheKeys = {"branches", "remotes"}
    /\ lastCache.op = "change" =>
          \A r \in RepoPaths, k \in GitCaches :
              cache[r][k] = IF r = lastCache.repo /\ k \in {"branches", "remotes"}
                            THEN Unset
                            ELSE lastCache.before[r][k]

\* a change event of a repository with branches and tags cached has just
\* fired: branches is unset and tags is still cached
C18_Witness ==
    /\ lastCache.op = "change"
    /\ lastCache.repo = "/repo1"
    /\ lastCache.before["/repo1"]["branches"].st = "cached"
    /\ lastCache.before["/repo1"]["tags"].st = "cached"
    /\ cache["/repo1"]["branches"] = Unset
    /\ cache["/repo1"]["tags"].st = "cached"

-----------------------------------------------------------------------------
(* Degenerate inputs *)

\* C21: the path utilities return on every plain string, the empty one
\* included, and return the empty answer on empty input: normalizePath('') is
\* '', commonBaseIndex is 0 and commonBase is undefined when either string is
\* empty, relative('', '') is '', and splitPath of an empty path with an empty
\* or missing repoPath is ('', '').
C21_DegenerateInputs ==
    /\ call = "none" =>
          /\ ENABLED NormalizePath
          /\ ENABLED CommonBaseIndex
          /\ ENABLED CommonBase
          /\ ENABLED Relative
          /\ ENABLED SplitPath
    /\ (call = "normalizePath" /\ arg1 = <<>>) => ret = <<>>
    /\ (call = "commonBaseIndex" /\ (arg1 = <<>> \/ arg2 = <<>>)) => ret = 0
    /\ (call = "commonBase" /\ (arg1 = <<>> \/ arg2 = <<>>)) => ret = Undefined
    /\ (call = "relative" /\ arg1 = <<>> /\ arg2 = <<>>) => ret = <<>>
    /\ (call = "splitPath" /\ arg1 = <<>> /\ arg2 = <<>>) => ret = << <<>>, <<>> >>

\* commonBase of an empty string and a path has returned undefined
C21_Witness ==
    /\ call = "commonBase"
    /\ arg1 = <<>>
    /\ arg2 = <<slash, "a">>
    /\ ret = Undefined

-----------------------------------------------------------------------------
(* What splitPath keeps *)

\* s without a leading '/'
WithoutLeadingSlash(s) ==
    IF Len(s) > 0 /\ s[1] = slash THEN DropFirst(s, 1) ELSE s

\* C22: for plain strings and a non-empty repoPath, when path and repoPath
\* share a '/'-boundary beyond index 0 the returned repoPath is the prefix of
\* the normalized path up to the deepest such boundary and returned repoPath +
\* '/' + returned relative path is the normalized path; otherwise the relative
\* path is the normalized path without its leading '/' and the returned
\* repoPath is the normalized repoPath argument.
C22_SplitLosesNothing ==
    (call = "splitPath" /\ arg2 # <<>>) =>
        LET p == Slashed(arg1)
            r == Slashed(arg2)
            S == CommonBoundaries(r \o <<slash>>, p \o <<slash>>, slash) \ {0}
        IN  IF S # {}
            THEN /\ ret[2] = substringTo(p, SetMax(S))
                 /\ ret[2] \o <<slash>> \o ret[1] = p
            ELSE /\ ret[1] = WithoutLeadingSlash(p)
                 /\ ret[2] = r

\* C22, amended: as C22 when the normalized path goes on beyond the boundary;
\* when it ends at the boundary (the path is the repository or a directory
\* above it) the relative path is empty and the returned repoPath is the whole
\* normalized path.
C22_SplitLosesNothingBeyondBoundary ==
    (call = "splitPath" /\ arg2 # <<>>) =>
        LET p == Slashed(arg1)
            r == Slashed(arg2)
            S == CommonBoundaries(r \o <<slash>>, p \o <<slash>>, slash) \ {0}
        IN  IF S # {}
            THEN /\ ret[2] = substringTo(p, SetMax(S))
                 /\ IF SetMax(S) < Len(p)
                    THEN ret[2] \o <<slash>> \o ret[1] = p
                    ELSE ret = <<<<>>, p>>
            ELSE /\ ret[1] = WithoutLeadingSlash(p)
                 /\ ret[2] = r

\* splitPath('/A/a', '/a') under a case-insensitive comparison returned the
\* path's own '/A' as repoPath and 'a' as relative path
C22_Witness ==
    /\ call = "splitPath"
    /\ arg1 = <<slash, "A", slash, "a">>
    /\ arg2 = <<slash, "a">>
    /\ ComparesIgnoringCase
    /\ ret = <<<<"a">>, <<slash, "A">>>>

-----------------------------------------------------------------------------
(* What relative returns *)

IsSuffixOf(suf, s) ==
    Len(suf) <= Len(s) /\ SubSeq(s, Len(s) - Len(suf) + 1, Len(s)) = suf

\* C23: for plain strings relative(from, to) is a suffix of normalizePath(to),
\* so that it holds no '..' segment that `to` does not hold; relative(p, p) is
\* the empty string; and relative(from, to) is the empty string when `to` is a
\* directory above `from`.
C23_RelativeIsSuffix ==
    call = "relative" =>
        LET t == Slashed(arg1)
            f == Slashed(arg2)
        IN  /\ IsSuffixOf(ret, t)
            /\ arg1 = arg2 => ret = <<>>
            /\ IsPrefixOf(t \o <<slash>>, f) => ret = <<>>

\* relative('a/a', 'a') returned the empty string
C23_Witness ==
    /\ call = "relative"
    /\ arg2 = <<"a", slash, "a">>
    /\ arg1 = <<"a">>
    /\ ret = <<>>

-----------------------------------------------------------------------------
(* isVslsRoot and hasVslsPrefix *)

\* C24: isVslsRoot(p) is hasVslsPrefix(p) for every string p; it is true of a
\* prefixed path with further segments, such as '/~0/a/b', and not of the bare
\* root alone.
C24_RootIsPrefix ==
    call = "isVslsRoot" =>
        /\ ret = hasVslsPrefix(arg1)
        /\ arg1 = <<slash, "~", "0", slash, "a", slash, "b">> => ret

\* isVslsRoot('/~0/a/b') returned true
C24_Witness ==
    /\ call = "isVslsRoot"
    /\ arg1 = <<slash, "~", "0", slash, "a", slash, "b">>
    /\ ret

-----------------------------------------------------------------------------
(* Properties of the cached details *)

\* C25: the methods of CommitFileNode and CommitNode issue a query only while
\* the details are unset (and the node is displayed as a commit); details that
\* are set stay set and unchanged through loadDetails, resolveTreeItem,
\* getTreeItem and refresh(false), and only refresh(true) clears them.
C25_DetailsLoadedOnce ==
    lastNode.op # "none" =>
        /\ lastNode.query # "none" =>
              lastNode.detailsBefore = Undefined /\ displayAsCommit
        /\ (lastNode.detailsBefore # Undefined
               /\ ~(lastNode.op = "refresh" /\ lastNode.reset)) =>
              _details = lastNode.detailsBefore

\* C25, amended: a call of loadDetails or resolveTreeItem goes on to query only
\* when the details are unset at the call (and the node is displayed as a
\* commit); a call, getTreeItem or refresh(false) leaves details that are set
\* as they are; details that are set are replaced only by a loadDetails call
\* that was suspended on its queries, and cleared only by refresh(true).
C25_DetailsLoadedOncePerCall ==
    lastNode.op # "none" =>
        /\ (lastNode.at = "call" /\ lastNode.query # "none") =>
              lastNode.detailsBefore = Undefined /\ displayAsCommit
        /\ (lastNode.detailsBefore # Undefined /\ lastNode.at = "call"
               /\ ~(lastNode.op = "refresh" /\ lastNode.reset)) =>
              _details = lastNode.detailsBefore /\ lastNode.query = "none"
        /\ (lastNode.detailsBefore # Undefined /\ _details # lastNode.detailsBefore) =>
              \/ lastNode.op = "refresh" /\ lastNode.reset /\ _details = Undefined
              \/ /\ lastNode.op = "loadDetails"
                 /\ lastNode.at = "Promise.all"
                 /\ _details # Undefined

\* loadDetails was called on a CommitFileNode displayed as a commit whose
\* details were set: it returned without a query and the details are as before
C25_Witness ==
    /\ lastNode.op = "loadDetails"
    /\ lastNode.at = "call"
    /\ node = "CommitFileNode"
    /\ _options.displayAsCommit
    /\ lastNode.detailsBefore # Undefined
    /\ lastNode.query = "none"
    /\ _details = lastNode.detailsBefore

\* C26: after refresh(true) the details stay unset until a loadDetails call
\* started after that reset completes: details that are set were fetched by a
\* call that began after the latest refresh(true).
C26_NoStoreAcrossReset ==
    _details # Undefined => _details.resetsAtStart = resets

====
